---- MODULE Spec2Model ----
(***************************************************************************)
(* Model of the Saul-ai legal document summarization service               *)
(* (src/server): the chunker, the JSON response extractor, the LLM call,   *)
(* the content validator and the HTTP handlers that compose them.          *)
(*                                                                         *)
(* Strings are sequences of one-character strings.  A document handled by  *)
(* the pipeline is described by its length and by the lexical terms it     *)
(* contains; a slice of it is described by its index range.                *)
(***************************************************************************)
EXTENDS Integers, Sequences, FiniteSets, TLC

\* ------------------------------------------------------------------------
\* Bounds of the input spaces of _chunk_text and _force_json
\* ------------------------------------------------------------------------
MaxLen == 5          \* longest text given to _chunk_text
MaxMaxChars == 3     \* largest max_chars given to _chunk_text
MaxChunks == 6       \* cap on loop iterations when the loop does not end
MaxRawLen == 3       \* longest free-form reply given to _force_json
MaxMembers == 2      \* most members of a JSON object in a fenced reply
MaxCleanLen == 4     \* longest text given to _clean_text

Alphabet == {"a", "b"}
MinOverlap == 0 - 1

\* ------------------------------------------------------------------------
\* Python helpers
\* ------------------------------------------------------------------------
Min(a, b) == IF a <= b THEN a ELSE b
Max(a, b) == IF a >= b THEN a ELSE b

\* Python's index normalisation inside a slice of a sequence of length n
PyIndex(x, n) == IF x < 0 THEN Max(x + n, 0) ELSE Min(x, n)

\* Python's s[a:b]
PySlice(s, a, b) ==
    LET lo == PyIndex(a, Len(s))
        hi == PyIndex(b, Len(s))
    IN  IF lo < hi THEN SubSeq(s, lo + 1, hi) ELSE << >>

\* ------------------------------------------------------------------------
\* DocumentSummarizer._chunk_text
\* ------------------------------------------------------------------------
\* One iteration of the while loop on a text of length n, entered with
\* start index i: the slice bounds, whether the loop breaks, and the next i.
LoopStepGap(n, max_chars, overlap, i) ==
    LET end == Min(i + max_chars, n)
    IN  [from |-> i, end |-> end, brk |-> (end = n), next |-> end + 1]

LoopStepShort(n, max_chars, overlap, i) ==
    LET end == Min(i + max_chars, n)
    IN  [from |-> i, end |-> end, brk |-> (end >= n - 1), next |-> end - overlap]

LoopStepWide(n, max_chars, overlap, i) ==
    LET end == Min(i + max_chars, n)
    IN  [from |-> i, end |-> end, brk |-> (end = n), next |-> end - overlap - 1]

LoopStepStall(n, max_chars, overlap, i) ==
    LET end == Min(i + max_chars, n)
    IN  [from |-> i, end |-> end, brk |-> (end = n), next |-> end - max_chars]

LoopStepNoOverlap(n, max_chars, overlap, i) ==
    LET end == Min(i + max_chars, n)
    IN  [from |-> i, end |-> end, brk |-> (end = n), next |-> end]

LoopStep(n, max_chars, overlap, i) ==
    LET end == Min(i + max_chars, n)
    IN  [from |-> i, end |-> end, brk |-> (end = n), next |-> end - overlap]

\* The slice bounds the loop produces from start index i on, for parameters
\* on which the loop ends (0 <= overlap < max_chars).
RECURSIVE ChunkLoop(_, _, _, _)
ChunkLoop(n, max_chars, overlap, i) ==
    IF i < n
    THEN LET st == LoopStep(n, max_chars, overlap, i)
         IN  IF st.brk
             THEN << <<st.from, st.end>> >>
             ELSE << <<st.from, st.end>> >> \o ChunkLoop(n, max_chars, overlap, st.next)
    ELSE << >>

\* The slice bounds of the chunks _chunk_text returns for a text of length n
ChunkBounds(n, max_chars, overlap) ==
    IF n <= max_chars
    THEN << <<0, n>> >>
    ELSE ChunkLoop(n, max_chars, overlap, 0)

\* Default parameters of _chunk_text
DefaultMaxChars == 12000
DefaultOverlap == 500

\* ------------------------------------------------------------------------
\* LLM replies and DocumentSummarizer._force_json
\* ------------------------------------------------------------------------
\* A reply is a sequence of tokens: "{", "}", "," and " " (whitespace) are
\* themselves, "FENCE" is a ``` fence marker, "json" the fence's language tag,
\* "1" a JSON number, "Sure" a word of prose, and a member token stands for
\* one complete `"key": value` pair of a JSON object.  The keys are the four
\* the prompts ask for and "actions", a key the prompts do not ask for.
Members == {"full_summary", "key_points", "critical_clauses", "recommendations",
            "actions"}

\* str.strip()
RECURSIVE LStrip(_)
LStrip(s) == IF s # << >> /\ Head(s) = " " THEN LStrip(Tail(s)) ELSE s

RECURSIVE RStrip(_)
RStrip(s) ==
    IF s # << >> /\ s[Len(s)] = " " THEN RStrip(SubSeq(s, 1, Len(s) - 1)) ELSE s

Strip(s) == RStrip(LStrip(s))

\* line 43: re.sub(r"^```(?:json)?\s*", "", s)
StripLeadFence(s) ==
    IF s # << >> /\ Head(s) = "FENCE"
    THEN LET t == Tail(s)
             u == IF t # << >> /\ Head(t) = "json" THEN Tail(t) ELSE t
         IN  LStrip(u)
    ELSE s

\* line 44: re.sub(r"\s*```$", "", s)
StripTrailFence(s) ==
    IF s # << >> /\ s[Len(s)] = "FENCE"
    THEN RStrip(SubSeq(s, 1, Len(s) - 1))
    ELSE s

\* str.find / str.rfind, as 1-based positions, 0 for "not found"
FindFirst(s, c) ==
    IF \E k \in DOMAIN s : s[k] = c
    THEN CHOOSE k \in DOMAIN s : s[k] = c /\ \A j \in 1..(k - 1) : s[j] # c
    ELSE 0

FindLast(s, c) ==
    IF \E k \in DOMAIN s : s[k] = c
    THEN CHOOSE k \in DOMAIN s : s[k] = c /\ \A j \in (k + 1)..Len(s) : s[j] # c
    ELSE 0

RECURSIVE DropSpaces(_)
DropSpaces(s) ==
    IF s = << >> THEN << >>
    ELSE IF Head(s) = " " THEN DropSpaces(Tail(s))
    ELSE <<Head(s)>> \o DropSpaces(Tail(s))

\* The keys of a dict built from the members in order: a repeated key keeps
\* its first position.
RECURSIVE DictKeys(_, _)
DictKeys(ms, seen) ==
    IF ms = << >> THEN << >>
    ELSE IF Head(ms) \in seen THEN DictKeys(Tail(ms), seen)
    ELSE <<Head(ms)>> \o DictKeys(Tail(ms), seen \cup {Head(ms)})

\* json.loads: a value, or the JSONDecodeError
JsonError == [ok |-> FALSE, type |-> "JSONDecodeError", keys |-> << >>, msg |-> "Expecting value"]

JsonLoads(s) ==
    LET t == DropSpaces(s)
        n == Len(t)
    IN  IF t = <<"1">>
        THEN [ok |-> TRUE, type |-> "number", keys |-> << >>, msg |-> ""]
        ELSE IF n >= 2 /\ t[1] = "{" /\ t[n] = "}"
        THEN LET inner == SubSeq(t, 2, n - 1)
                 m == Len(inner)
             IN  IF m = 0
                 THEN [ok |-> TRUE, type |-> "object", keys |-> << >>, msg |-> ""]
                 ELSE IF /\ m % 2 = 1
                         /\ \A k \in 1..m :
                              IF k % 2 = 1 THEN inner[k] \in Members ELSE inner[k] = ","
                 THEN [ok |-> TRUE, type |-> "object",
                       keys |-> DictKeys([k \in 1..((m + 1) \div 2) |-> inner[2 * k - 1]], {}),
                       msg |-> ""]
                 ELSE JsonError
        ELSE JsonError

\* lines 46-48: the slice from the first "{" to the last "}", both included,
\* or s itself when there is no such pair
SliceBracesExclusive(s) ==
    LET start == FindFirst(s, "{")
        end == FindLast(s, "}")
    IN  IF start # 0 /\ end # 0 /\ end > start THEN SubSeq(s, start, end - 1) ELSE s

SliceBraces(s) ==
    LET start == FindFirst(s, "{")
        end == FindLast(s, "}")
    IN  IF start # 0 /\ end # 0 /\ end > start THEN SubSeq(s, start, end) ELSE s

\* lines 42-48: the text handed to json.loads
Bracketed(s0) == SliceBraces(StripTrailFence(StripLeadFence(Strip(s0))))

\* line 55: ValueError(f"Failed to parse JSON response: {e}"), e the decoder's
\* message, which names a position in the text and quotes none of it
ParseFailure ==
    [ok |-> FALSE, type |-> "ValueError", keys |-> << >>,
     msg |-> "Failed to parse JSON response"]

\* lines 50-55: the parsed value, or the ValueError
ParseOrRaiseNative(s) == JsonLoads(s)

ParseOrRaiseInject(s) ==
    LET v == JsonLoads(s)
    IN  IF ~v.ok THEN ParseFailure
        ELSE IF v.type = "object" /\ \A k \in DOMAIN v.keys : v.keys[k] # "actions"
        THEN [v EXCEPT !.keys = Append(v.keys, "actions")]
        ELSE v

ParseOrRaise(s) ==
    LET v == JsonLoads(s)
    IN  IF v.ok THEN v ELSE ParseFailure

\* lines 40-55
ForceJson(s0) == ParseOrRaise(Bracketed(s0))

\* ------------------------------------------------------------------------
\* DocumentValidator
\* ------------------------------------------------------------------------
\* A text is described by its length, the length of text.strip(), the
\* number of words of text.lower().split(), the table terms that occur in
\* text.lower() as substrings, and the legal_patterns (by position in the
\* table) that re.search finds in it.
legal_keywords == <<
    "contract", "agreement", "terms", "conditions", "clause", "hereby",
    "whereas", "party", "parties", "legal", "law", "court", "jurisdiction",
    "liability", "damages", "breach", "obligations", "rights", "duties",
    "employment", "lease", "rental", "purchase", "sale", "confidentiality",
    "non-disclosure", "nda", "copyright", "intellectual property",
    "patent", "trademark", "license", "warranty", "guarantee", "indemnity",
    "settlement", "dispute", "arbitration", "mediation", "executor",
    "beneficiary", "trust", "will", "testament", "probate", "divorce",
    "custody", "alimony", "spouse", "defendant", "plaintiff", "attorney",
    "counsel", "legal representative", "incorporate", "corporation",
    "partnership", "llc", "business entity", "bylaws", "articles",
    "shareholder", "stockholder", "board of directors", "merger",
    "acquisition", "securities", "compliance", "regulatory", "statute",
    "ordinance", "regulation", "code", "act", "bill", "law",
    "constitutional", "federal", "state", "municipal", "government" >>

\* legal_patterns holds 12 regular expressions, named here by position
legal_patterns == 1..12

non_legal_indicators == <<
    "recipe", "cooking", "ingredients", "bake", "cook", "food", "meal",
    "story", "novel", "chapter", "fiction", "character", "plot",
    "tutorial", "how-to", "step by step", "guide", "instructions", "blog",
    "post", "social media", "tweet", "facebook", "instagram", "email",
    "message", "chat", "conversation", "text message", "shopping list",
    "grocery", "buy", "purchase list", "todo", "diary", "journal",
    "personal", "thoughts", "feelings", "homework", "assignment", "school",
    "student", "teacher", "class", "poem", "poetry", "verse", "rhyme",
    "stanza", "manual", "user guide", "technical documentation",
    "software", "code", "programming", "function", "variable", "class",
    "import" >>

\* sum(1 for word in table if word in text_lower)
CountFound(table, terms) == Cardinality({k \in DOMAIN table : table[k] \in terms})

legal_word_count(t) == CountFound(legal_keywords, t.terms)
pattern_matches(t) == Cardinality(t.pats \cap legal_patterns)
non_legal_count(t) == CountFound(non_legal_indicators, t.terms)

\* Scores are held in units of 1 / ScoreUnit, so that ratio r is r * ScoreUnit
NK == Len(legal_keywords)
NP == Cardinality(legal_patterns)
NN == Len(non_legal_indicators)
ScoreUnit == 100 * NK * NP * NN

\* line 89: legal_word_ratio * 0.6 + pattern_ratio * 0.4
legal_score(t) == 60 * legal_word_count(t) * NP * NN + 40 * pattern_matches(t) * NK * NN

\* line 90: max(0.0, legal_score - non_legal_ratio * 0.3)
confidence_scoreUnclamped(t) == legal_score(t) - 30 * non_legal_count(t) * NK * NP

confidence_score(t) == Max(0, legal_score(t) - 30 * non_legal_count(t) * NK * NP)

\* The two count triples whose exact score is 0.15 and whose double-precision
\* score is 0.14999999999999997
FloatRoundsBelow(t) ==
    <<legal_word_count(t), pattern_matches(t), non_legal_count(t)>>
        \in {<<45, 2, 50>>, <<54, 0, 50>>}

\* line 93: confidence_score >= 0.15
MeetsThreshold(t) == 100 * confidence_score(t) >= 15 * ScoreUnit /\ ~FloatRoundsBelow(t)

\* line 95: non_legal_ratio > 0.1
HighNonLegal(t) == 10 * non_legal_count(t) > NN

GenericReason == "Document does not appear to contain legal content"

\* lines 100-113
specific_non_legal_reasonFictionFirst(t) ==
    IF t.terms \cap {"story", "novel", "chapter", "fiction"} # {}
    THEN "This appears to be a story or fictional content, not a legal document"
    ELSE IF t.terms \cap {"recipe", "cooking", "ingredients", "bake"} # {}
    THEN "This appears to be a recipe or cooking document, not a legal document"
    ELSE IF t.terms \cap {"code", "function", "import", "programming"} # {}
    THEN "This appears to be source code or technical documentation, not a legal document"
    ELSE IF t.terms \cap {"email", "message", "chat", "conversation"} # {}
    THEN "This appears to be a personal message or email, not a legal document"
    ELSE IF t.terms \cap {"homework", "assignment", "school", "student"} # {}
    THEN "This appears to be educational content, not a legal document"
    ELSE GenericReason

specific_non_legal_reason(t) ==
    IF t.terms \cap {"recipe", "cooking", "ingredients", "bake"} # {}
    THEN "This appears to be a recipe or cooking document, not a legal document"
    ELSE IF t.terms \cap {"story", "novel", "chapter", "fiction"} # {}
    THEN "This appears to be a story or fictional content, not a legal document"
    ELSE IF t.terms \cap {"code", "function", "import", "programming"} # {}
    THEN "This appears to be source code or technical documentation, not a legal document"
    ELSE IF t.terms \cap {"email", "message", "chat", "conversation"} # {}
    THEN "This appears to be a personal message or email, not a legal document"
    ELSE IF t.terms \cap {"homework", "assignment", "school", "student"} # {}
    THEN "This appears to be educational content, not a legal document"
    ELSE GenericReason

MinChars == 50
MinWords == 20

\* line 62: not text or len(text.strip()) < 50
ShortText(t) == t.len = 0 \/ t.strip < MinChars

\* line 69: total_words < 20
FewWordsLoose(t) == t.words < MinWords - 1
FewWords(t) == t.words < MinWords

\* lines 55-98: (is_valid, reason, confidence_score)
validate_document_content(t) ==
    IF ShortText(t)
    THEN [is_legal |-> FALSE, reason |-> "Document is too short to analyze", confidence |-> 0]
    ELSE IF FewWords(t)
    THEN [is_legal |-> FALSE, reason |-> "Document is too short to be a legal document",
          confidence |-> 0]
    ELSE IF MeetsThreshold(t)
    THEN [is_legal |-> TRUE, reason |-> "Document appears to be legal-related",
          confidence |-> confidence_score(t)]
    ELSE IF HighNonLegal(t)
    THEN [is_legal |-> FALSE, reason |-> specific_non_legal_reason(t),
          confidence |-> confidence_score(t)]
    ELSE [is_legal |-> FALSE, reason |-> GenericReason, confidence |-> confidence_score(t)]

\* ------------------------------------------------------------------------
\* Documents the text extractor hands to the handlers
\* ------------------------------------------------------------------------
\* The terms and patterns of an employment agreement
LegalTerms ==
    {"act", "agreement", "arbitration", "breach", "conditions",
         "confidentiality", "contract", "court", "damages", "duties",
         "employment", "hereby", "indemnity", "jurisdiction", "law",
         "liability", "obligations", "parties", "rights", "terms",
         "warranty", "whereas"}
LegalPats == {1, 3, 4, 5, 6, 8, 12}

\* The terms of a cooking recipe posted on a blog
RecipeTerms ==
    {"bake", "blog", "cook", "cooking", "food", "guide",
         "ingredients", "instructions", "meal", "post", "recipe",
         "step by step", "story", "student", "teacher"}

\* The terms and patterns of a non-disclosure agreement
NdaTerms ==
    {"agreement", "breach", "confidentiality", "copyright", "hereby",
     "intellectual property", "law", "liability", "license", "nda",
     "non-disclosure", "parties", "party", "rights", "state", "terms",
     "trademark"}
NdaPats == {1, 6, 8}

\* The lengths of the long documents
DocLens == {8000, 12000, 12001, 15000, 25000}

LongDocs ==
    {[len |-> n, strip |-> n, words |-> n \div 7, terms |-> LegalTerms, pats |-> LegalPats] :
        n \in DocLens}
    \cup
    {[len |-> n, strip |-> n, words |-> n \div 6, terms |-> RecipeTerms, pats |-> {}] :
        n \in DocLens}
    \cup
    {[len |-> n, strip |-> n, words |-> n \div 7, terms |-> NdaTerms, pats |-> NdaPats] :
        n \in {8000, 15000}}

ShortDocs ==
    { [len |-> 0, strip |-> 0, words |-> 0, terms |-> {}, pats |-> {}],
      [len |-> 30, strip |-> 30, words |-> 5, terms |-> {"contract", "act"}, pats |-> {1}],
      [len |-> 70, strip |-> 70, words |-> 11,
       terms |-> {"act", "agreement", "contract", "hereby", "parties", "terms", "whereas"},
       pats |-> {1, 3, 5}] }

Docs == LongDocs \cup ShortDocs

\* ------------------------------------------------------------------------
\* DocumentSummarizer._make_api_call
\* ------------------------------------------------------------------------
\* Replies the model may send as the content of a completion
PlainReply == <<"{", "full_summary", ",", "key_points", "}">>
FencedReply ==
    <<"Sure", " ", "FENCE", "json", " ", "{", "full_summary", "}", " ", "FENCE">>
PartialReply == <<"{", "key_points", ",", "recommendations", "}">>
ProseReply == <<"Sure">>
NumberReply == <<"1">>

\* What requests.post does: it raises, or it returns a response with a
\* status code and, for status 200, a body with or without choices.
Transport(kind, status, choices, content) ==
    [kind |-> kind, status |-> status, choices |-> choices, content |-> content]

Transports ==
    {Transport("Timeout", 0, FALSE, << >>), Transport("ConnectionError", 0, FALSE, << >>)}
    \cup {Transport("response", st, FALSE, << >>) : st \in {401, 429, 400, 500}}
    \cup {Transport("response", 200, FALSE, << >>)}
    \cup {Transport("response", 200, TRUE, r) :
              r \in {PlainReply, FencedReply, PartialReply, ProseReply, NumberReply}}

Raised(type, msg) == [ok |-> FALSE, type |-> type, msg |-> msg, content |-> << >>]
Returned(content) == [ok |-> TRUE, type |-> "str", msg |-> "", content |-> content]

\* line 94: f"Failed to connect to Groq API: {str(e)}", e the exception of
\* the requests library
FailedToConnect(cause) ==
    IF cause = "Timeout" THEN "Failed to connect to Groq API: Timeout"
    ELSE IF cause = "ConnectionError" THEN "Failed to connect to Groq API: ConnectionError"
    ELSE "Failed to connect to Groq API: HTTPError"

\* lines 66-94: the content of the first choice, or the ValueError raised
MakeApiCallNative(tr) ==
    IF tr.kind # "response"
    THEN Raised(tr.kind, FailedToConnect(tr.kind))
    ELSE IF tr.status = 401 THEN Raised("ValueError", "Invalid Groq API key")
    ELSE IF tr.status = 429 THEN Raised("ValueError", "Rate limit exceeded")
    ELSE IF tr.status = 400 THEN Raised("ValueError", "Bad request to Groq API")
    ELSE IF tr.status >= 400 THEN Raised("HTTPError", FailedToConnect("HTTPError"))
    ELSE IF ~tr.choices THEN Raised("ValueError", "No response from Groq API")
    ELSE Returned(tr.content)

MakeApiCallTimeoutBlank(tr) ==
    IF tr.kind = "Timeout" THEN Returned(<< >>)
    ELSE IF tr.kind # "response"
    THEN Raised("ValueError", FailedToConnect(tr.kind))
    ELSE IF tr.status = 401 THEN Raised("ValueError", "Invalid Groq API key")
    ELSE IF tr.status = 429 THEN Raised("ValueError", "Rate limit exceeded")
    ELSE IF tr.status = 400 THEN Raised("ValueError", "Bad request to Groq API")
    ELSE IF tr.status >= 400 THEN Raised("ValueError", FailedToConnect("HTTPError"))
    ELSE IF ~tr.choices THEN Raised("ValueError", "No response from Groq API")
    ELSE Returned(tr.content)

MakeApiCall(tr) ==
    IF tr.kind # "response"
    THEN Raised("ValueError", FailedToConnect(tr.kind))
    ELSE IF tr.status = 401 THEN Raised("ValueError", "Invalid Groq API key")
    ELSE IF tr.status = 429 THEN Raised("ValueError", "Rate limit exceeded")
    ELSE IF tr.status = 400 THEN Raised("ValueError", "Bad request to Groq API")
    ELSE IF tr.status >= 400 THEN Raised("ValueError", FailedToConnect("HTTPError"))
    ELSE IF ~tr.choices THEN Raised("ValueError", "No response from Groq API")
    ELSE Returned(tr.content)

\* _make_api_call followed by _force_json (lines 115-116, 160-161, 175-176):
\* the parsed value, or the exception that leaves summarise_document
CallAndParse(tr) ==
    LET r == MakeApiCall(tr)
    IN  IF ~r.ok THEN [ok |-> FALSE, type |-> r.type, keys |-> << >>, msg |-> r.msg]
        ELSE ForceJson(r.content)

\* ------------------------------------------------------------------------
\* The handlers of app.py and DocumentSummarizer.summarise_document
\* ------------------------------------------------------------------------
SinglePassLimit == 12000
PromptDocLimit == 10000

\* app.py lines 92, 152, 188 and summarizer.py line 136
TooShort(t) == t.len = 0 \/ t.strip < MinChars

\* summarizer.py line 140
SinglePassBelow(t) == t.len < SinglePassLimit
SinglePassShort(t) == t.len <= PromptDocLimit
SinglePass(t) == t.len <= SinglePassLimit

\* summarizer.py line 147: the for loop has a chunk after chunk idx
MoreChunksEarly(idx, total) == idx + 1 < total
MoreChunks(idx, total) == idx < total

\* summarizer.py line 161: partials.append(...)
AppendPartialFront(partials, v) == <<v>> \o partials
AppendPartial(partials, v) == Append(partials, v)

\* summarizer.py lines 160-161, 178-180: an exception of the call or of the
\* parse leaves the loop and summarise_document
RaisesNever(v) == FALSE
Raises(v) == ~v.ok

\* summarizer.py line 71: timeout=60
RequestTimeout == 60

\* app.py line 103
RejectedNever(v) == FALSE
Rejected(v) == ~v.is_legal

Uploads ==
    [endpoint : {"summarize", "docx", "validate"},
     filename : BOOLEAN,
     oversize : BOOLEAN,
     data : BOOLEAN,
     extract_ok : BOOLEAN,
     doc : Docs]

NoUpload ==
    [endpoint |-> "none", filename |-> FALSE, oversize |-> FALSE, data |-> FALSE,
     extract_ok |-> FALSE,
     doc |-> [len |-> 0, strip |-> 0, words |-> 0, terms |-> {}, pats |-> {}]]

NoValidation == [is_legal |-> FALSE, reason |-> "", confidence |-> 0 - 1]
NoValue == [ok |-> FALSE, type |-> "none", keys |-> << >>, msg |-> ""]

\* The HTTP response: an error, the SummaryResponse JSON, or the DOCX file
NoResponse ==
    [status |-> 0, body |-> "none", detail |-> "", result |-> NoValue,
     validation |-> NoValidation]
ErrorResponse(status, detail) ==
    [status |-> status, body |-> "error", detail |-> detail, result |-> NoValue,
     validation |-> NoValidation]

\* An LLM request: the single-pass request, the request for chunk idx of
\* total, or the aggregation request.  from/to is the range of the document
\* embedded in the user prompt, payload the list of partials embedded in it.
Request(kind, idx, total, from, to, payload) ==
    [kind |-> kind, idx |-> idx, total |-> total, from |-> from, to |-> to,
     payload |-> payload, timeout |-> RequestTimeout, outcome |-> "pending",
     reply |-> Transport("none", 0, FALSE, << >>)]

VARIABLES pc, upload, validation, chunks, partials, reqs, result, response, stages

pipeVars == <<pc, upload, validation, chunks, partials, reqs, result, response, stages>>

\* State of one call of _chunk_text on a text given as a string
VARIABLES c_text, c_max, c_overlap, c_pc, c_i, c_chunks, c_bounds

chunkVars == <<c_text, c_max, c_overlap, c_pc, c_i, c_chunks, c_bounds>>

\* State of one call of _force_json: the reply and how it was put together,
\* the local s, the value returned or the error raised
VARIABLES f_raw, f_form, f_pc, f_s, f_result

fjVars == <<f_raw, f_form, f_pc, f_s, f_result>>

\* State of one call of validate_document_content: the text, the tables
\* read so far, the three counts, the tuple returned
VARIABLES v_doc, v_pc, v_consulted, v_counts, v_result

valVars == <<v_doc, v_pc, v_consulted, v_counts, v_result>>

\* State of two calls of summarise_document on the one DocumentSummarizer:
\* the instance's fields, and each call's text and local variables
VARIABLES q_self, q_text, q_pc, q_chunks, q_partials, q_reqs, q_result

pairVars == <<q_self, q_text, q_pc, q_chunks, q_partials, q_reqs, q_result>>

\* State of _clean_text applied to a text and then to its own result
VARIABLES x_text, x_pc, x_pass, x_s, x_first, x_second

cleanVars == <<x_text, x_pc, x_pass, x_s, x_first, x_second>>

vars == <<pipeVars, chunkVars, fjVars, valVars, pairVars, cleanVars>>

PipeInit ==
    /\ pc = "idle"
    /\ upload = NoUpload
    /\ validation = NoValidation
    /\ chunks = << >>
    /\ partials = << >>
    /\ reqs = << >>
    /\ result = NoValue
    /\ response = NoResponse
    /\ stages = << >>

\* The handler answers and ends
Respond(r) ==
    /\ response' = r
    /\ pc' = "done"

\* except ValueError -> 400, except Exception -> 500 (app.py lines 133-139,
\* 294-300)
ExceptionResponse(type, msg) ==
    IF type = "ValueError" THEN ErrorResponse(400, msg) ELSE ErrorResponse(500, msg)

\* An HTTPException raised inside the handler's try block: /summarize and
\* /summarize/docx re-raise it (app.py lines 132-133, 294-295);
\* /validate-document has only `except Exception` (lines 169-170), which
\* catches it and raises a 500 in its place.  Any other exception of
\* /validate-document ends there too.
HandlerRaises(endpoint, r) ==
    IF endpoint = "validate" THEN ErrorResponse(500, "Validation error") ELSE r

\* A request arrives at POST /summarize, POST /summarize/docx or
\* POST /validate-document
Receive ==
    /\ pc = "idle"
    /\ \E u \in Uploads :
          /\ upload' = u
          /\ pc' = IF u.endpoint = "summarize" THEN "check" ELSE "read"
    /\ UNCHANGED <<validation, chunks, partials, reqs, result, response, stages>>
    /\ UNCHANGED <<chunkVars, fjVars, valVars, pairVars, cleanVars>>

\* app.py lines 76-82
CheckFile ==
    /\ pc = "check"
    /\ IF ~upload.filename THEN Respond(ErrorResponse(400, "No filename provided"))
       ELSE IF upload.oversize THEN Respond(ErrorResponse(413, "File too large"))
       ELSE /\ pc' = "read"
            /\ UNCHANGED response
    /\ UNCHANGED <<upload, validation, chunks, partials, reqs, result, stages>>
    /\ UNCHANGED <<chunkVars, fjVars, valVars, pairVars, cleanVars>>

\* app.py lines 86-96 and 182-192: read the upload, extract its text and
\* check the text's length
ReadExtract ==
    /\ pc = "read"
    /\ IF ~upload.data
       THEN /\ Respond(HandlerRaises(upload.endpoint,
                                      ErrorResponse(400, "Empty file uploaded")))
            /\ UNCHANGED stages
       ELSE IF ~upload.extract_ok
       THEN /\ Respond(HandlerRaises(upload.endpoint,
                           ExceptionResponse("ValueError", "Failed to process file")))
            /\ UNCHANGED stages
       ELSE /\ stages' = Append(stages, "length")
            /\ IF TooShort(upload.doc)
               THEN Respond(HandlerRaises(upload.endpoint,
                       ErrorResponse(400, "Could not extract sufficient text")))
               ELSE /\ pc' = IF upload.endpoint = "docx" THEN "summarise" ELSE "validate"
                    /\ UNCHANGED response
    /\ UNCHANGED <<upload, validation, chunks, partials, reqs, result>>
    /\ UNCHANGED <<chunkVars, fjVars, valVars, pairVars, cleanVars>>

\* app.py lines 101-115, and lines 158-167 for /validate-document, which
\* answers with the validator's tuple
Validate ==
    /\ pc = "validate"
    /\ LET v == validate_document_content(upload.doc)
       IN  /\ validation' = v
           /\ stages' = Append(stages, "validate")
           /\ IF upload.endpoint = "validate"
              THEN Respond([status |-> 200, body |-> "validation", detail |-> "",
                            result |-> NoValue, validation |-> v])
              ELSE IF Rejected(v)
              THEN Respond(ErrorResponse(422, v.reason))
              ELSE /\ pc' = "summarise"
                   /\ UNCHANGED response
    /\ UNCHANGED <<upload, chunks, partials, reqs, result>>
    /\ UNCHANGED <<chunkVars, fjVars, valVars, pairVars, cleanVars>>

\* The user prompt of the request for chunk idx (summarizer.py lines 150-158)
ChunkRequest(idx, bounds) ==
    Request("chunk", idx, Len(bounds), bounds[idx][1], bounds[idx][2], << >>)

\* summarizer.py lines 136-160: summarise_document up to its first request
SummariseEntry ==
    /\ pc = "summarise"
    /\ IF TooShort(upload.doc)
       THEN /\ Respond(ExceptionResponse("ValueError", "Text is too short to summarize"))
            /\ UNCHANGED <<chunks, reqs, stages>>
       ELSE IF SinglePass(upload.doc)
       THEN /\ reqs' = Append(reqs, Request("single", 1, 1, 0,
                                Min(PromptDocLimit, upload.doc.len), << >>))
            /\ stages' = Append(stages, "summarize")
            /\ pc' = "single"
            /\ UNCHANGED <<chunks, response>>
       ELSE LET bounds == ChunkBounds(upload.doc.len, DefaultMaxChars, DefaultOverlap)
            IN  /\ chunks' = bounds
                /\ reqs' = Append(reqs, ChunkRequest(1, bounds))
                /\ stages' = stages \o <<"chunk", "summarize">>
                /\ pc' = "chunk"
                /\ UNCHANGED response
    /\ UNCHANGED <<upload, validation, partials, result>>
    /\ UNCHANGED <<chunkVars, fjVars, valVars, pairVars, cleanVars>>

\* The pending request, the last of rs, gets its reply
AnsweredIn(rs, tr, v) ==
    [rs EXCEPT ![Len(rs)].reply = tr,
               ![Len(rs)].outcome =
                   IF v.ok THEN "parsed"
                   ELSE IF MakeApiCall(tr).ok THEN "parse_error"
                   ELSE "transport_error"]

Answered(tr, v) == AnsweredIn(reqs, tr, v)

\* app.py lines 120-131: /summarize attaches the validation and builds the
\* SummaryResponse; lines 199-292: /summarize/docx builds the Word file
Deliver(endpoint, v, val) ==
    IF v.type # "object"
    THEN ExceptionResponse(IF endpoint = "summarize" THEN "HTTPException" ELSE "AttributeError",
                           "Invalid response format")
    ELSE IF endpoint = "summarize"
    THEN IF \E k \in DOMAIN v.keys : v.keys[k] = "full_summary"
         THEN [status |-> 200, body |-> "summary", detail |-> "", result |-> v,
               validation |-> [is_legal |-> TRUE, reason |-> val.reason,
                               confidence |-> val.confidence]]
         ELSE ExceptionResponse("ValueError", "ValidationError")
    ELSE [status |-> 200, body |-> "docx", detail |-> "", result |-> v,
          validation |-> NoValidation]

\* summarise_document returns v to the handler, or raises
ReturnToHandler(v) ==
    IF v.ok
    THEN /\ result' = v
         /\ Respond(Deliver(upload.endpoint, v, validation))
    ELSE /\ result' = result
         /\ Respond(ExceptionResponse(v.type, v.msg))

\* summarizer.py lines 115-116 and 141: the reply to the single-pass request
SinglePassReply ==
    /\ pc = "single"
    /\ \E tr \in Transports :
          LET v == CallAndParse(tr)
          IN  /\ reqs' = Answered(tr, v)
              /\ ReturnToHandler(v)
    /\ UNCHANGED <<upload, validation, chunks, partials, stages>>
    /\ UNCHANGED <<chunkVars, fjVars, valVars, pairVars, cleanVars>>

\* summarizer.py lines 147-175: the reply to a chunk request, then the next
\* chunk request or, after the last chunk, the aggregation request
ChunkReply ==
    /\ pc = "chunk"
    /\ \E tr \in Transports :
          LET v == CallAndParse(tr)
              idx == reqs[Len(reqs)].idx
              collected == AppendPartial(partials, v)
          IN  IF Raises(v)
              THEN /\ reqs' = Answered(tr, v)
                   /\ Respond(ExceptionResponse(v.type, v.msg))
                   /\ UNCHANGED <<partials, stages>>
              ELSE /\ partials' = collected
                   /\ IF MoreChunks(idx, Len(chunks))
                      THEN /\ reqs' = Append(Answered(tr, v), ChunkRequest(idx + 1, chunks))
                           /\ stages' = Append(stages, "summarize")
                           /\ pc' = "chunk"
                      ELSE /\ reqs' = Append(Answered(tr, v),
                                        Request("aggregate", 0, 0, 0, 0, collected))
                           /\ stages' = Append(stages, "aggregate")
                           /\ pc' = "aggregate"
                   /\ UNCHANGED response
    /\ UNCHANGED <<upload, validation, chunks, result>>
    /\ UNCHANGED <<chunkVars, fjVars, valVars, pairVars, cleanVars>>

\* summarizer.py lines 175-176: the reply to the aggregation request
AggregateReply ==
    /\ pc = "aggregate"
    /\ \E tr \in Transports :
          LET v == CallAndParse(tr)
          IN  /\ reqs' = Answered(tr, v)
              /\ ReturnToHandler(v)
    /\ UNCHANGED <<upload, validation, chunks, partials, stages>>
    /\ UNCHANGED <<chunkVars, fjVars, valVars, pairVars, cleanVars>>

PipeNext ==
    \/ Receive
    \/ CheckFile
    \/ ReadExtract
    \/ Validate
    \/ SummariseEntry
    \/ SinglePassReply
    \/ ChunkReply
    \/ AggregateReply

RECURSIVE SeqsUpTo(_, _)
SeqsUpTo(S, n) ==
    IF n = 0 THEN {<< >>}
    ELSE LET shorter == SeqsUpTo(S, n - 1)
         IN  shorter \cup {Append(s, x) : s \in {t \in shorter : Len(t) = n - 1}, x \in S}

Texts == SeqsUpTo(Alphabet, MaxLen)

ChunkInit ==
    /\ c_text \in Texts
    /\ c_max \in 1..MaxMaxChars
    /\ c_overlap \in MinOverlap..MaxMaxChars
    /\ c_pc = "entry"
    /\ c_i = 0
    /\ c_chunks = << >>
    /\ c_bounds = << >>

\* lines 120-124: the early return for a short text, else the loop set-up
ChunkEntryLoopOnly ==
    /\ c_pc = "entry"
    /\ c_chunks' = << >>
    /\ c_bounds' = << >>
    /\ c_pc' = "loop"
    /\ c_i' = 0
    /\ UNCHANGED <<c_text, c_max, c_overlap>>
    /\ UNCHANGED <<pipeVars, fjVars, valVars, pairVars, cleanVars>>

ChunkEntry ==
    /\ c_pc = "entry"
    /\ IF Len(c_text) <= c_max
       THEN /\ c_chunks' = <<c_text>>
            /\ c_bounds' = << <<0, Len(c_text)>> >>
            /\ c_pc' = "done"
       ELSE /\ c_chunks' = << >>
            /\ c_bounds' = << >>
            /\ c_pc' = "loop"
    /\ c_i' = 0
    /\ UNCHANGED <<c_text, c_max, c_overlap>>
    /\ UNCHANGED <<pipeVars, fjVars, valVars, pairVars, cleanVars>>

\* lines 125-131: one iteration of the while loop
ChunkIter ==
    /\ c_pc = "loop"
    /\ c_i < Len(c_text)
    /\ Len(c_chunks) < MaxChunks
    /\ LET st == LoopStep(Len(c_text), c_max, c_overlap, c_i)
       IN  /\ c_chunks' = Append(c_chunks, PySlice(c_text, st.from, st.end))
           /\ c_bounds' = Append(c_bounds, <<st.from, st.end>>)
           /\ IF st.brk
              THEN /\ c_pc' = "done"
                   /\ c_i' = c_i
              ELSE /\ c_pc' = "loop"
                   /\ c_i' = st.next
    /\ UNCHANGED <<c_text, c_max, c_overlap>>
    /\ UNCHANGED <<pipeVars, fjVars, valVars, pairVars, cleanVars>>

\* line 125 with a false condition, then line 132
ChunkExit ==
    /\ c_pc = "loop"
    /\ ~(c_i < Len(c_text))
    /\ c_pc' = "done"
    /\ UNCHANGED <<c_text, c_max, c_overlap, c_i, c_chunks, c_bounds>>
    /\ UNCHANGED <<pipeVars, fjVars, valVars, pairVars, cleanVars>>

ChunkNext == ChunkEntry \/ ChunkIter \/ ChunkExit

\* The chunker at rest while the service handles a request
ChunkIdle ==
    /\ c_text = << >>
    /\ c_max = DefaultMaxChars
    /\ c_overlap = DefaultOverlap
    /\ c_pc = "done"
    /\ c_i = 0
    /\ c_chunks = << >>
    /\ c_bounds = << >>

\* ------------------------------------------------------------------------
\* A call of _force_json, line by line
\* ------------------------------------------------------------------------
RawTokens ==
    {"{", "}", ",", " ", "FENCE", "json", "1", "Sure", "full_summary", "actions"}

\* Prose without braces, white space, and the fence's optional language tag
Proses == {<< >>, <<"Sure">>, <<"Sure", ",", " ", "1">>, <<"json">>}
Spaces == {<< >>, <<" ">>}
Tags == {<< >>, <<"json">>}

\* The text of the JSON object with members ms in order
RECURSIVE JoinMembers(_)
JoinMembers(ms) ==
    IF ms = << >> THEN << >>
    ELSE IF Len(ms) = 1 THEN ms
    ELSE <<Head(ms), ",">> \o JoinMembers(Tail(ms))

ObjectText(ms) == <<"{">> \o JoinMembers(ms) \o <<"}">>

JsonObjects == {ObjectText(ms) : ms \in SeqsUpTo(Members, MaxMembers)}

\* prefix + opening fence + J + closing fence + suffix
FencedForms ==
    [wrapped : {TRUE}, prefix : Proses, outer : Spaces, tag : Tags, inner : Spaces,
     json : JsonObjects, suffix : Proses]

FormText(f) ==
    f.prefix \o f.outer \o <<"FENCE">> \o f.tag \o f.inner \o f.json
        \o f.inner \o <<"FENCE">> \o f.outer \o f.suffix

\* A reply that was not put together from a form
NoForm ==
    [wrapped |-> FALSE, prefix |-> << >>, outer |-> << >>, tag |-> << >>,
     inner |-> << >>, json |-> << >>, suffix |-> << >>]

FjInit ==
    /\ \/ /\ f_raw \in SeqsUpTo(RawTokens, MaxRawLen)
          /\ f_form = NoForm
       \/ /\ f_form \in FencedForms
          /\ f_raw = FormText(f_form)
    /\ f_pc = "strip"
    /\ f_s = << >>
    /\ f_result = NoValue

\* line 42
FjStrip ==
    /\ f_pc = "strip"
    /\ f_s' = Strip(f_raw)
    /\ f_pc' = "lead"
    /\ UNCHANGED <<f_raw, f_form, f_result>>
    /\ UNCHANGED <<pipeVars, chunkVars, valVars, pairVars, cleanVars>>

\* line 43
FjLeadFence ==
    /\ f_pc = "lead"
    /\ f_s' = StripLeadFence(f_s)
    /\ f_pc' = "trail"
    /\ UNCHANGED <<f_raw, f_form, f_result>>
    /\ UNCHANGED <<pipeVars, chunkVars, valVars, pairVars, cleanVars>>

\* line 44
FjTrailFence ==
    /\ f_pc = "trail"
    /\ f_s' = StripTrailFence(f_s)
    /\ f_pc' = "slice"
    /\ UNCHANGED <<f_raw, f_form, f_result>>
    /\ UNCHANGED <<pipeVars, chunkVars, valVars, pairVars, cleanVars>>

\* lines 46-48
FjSlice ==
    /\ f_pc = "slice"
    /\ f_s' = SliceBraces(f_s)
    /\ f_pc' = "loads"
    /\ UNCHANGED <<f_raw, f_form, f_result>>
    /\ UNCHANGED <<pipeVars, chunkVars, valVars, pairVars, cleanVars>>

\* lines 50-55
FjLoads ==
    /\ f_pc = "loads"
    /\ f_result' = ParseOrRaise(f_s)
    /\ f_pc' = "done"
    /\ UNCHANGED <<f_raw, f_form, f_s>>
    /\ UNCHANGED <<pipeVars, chunkVars, valVars, pairVars, cleanVars>>

FjNext == FjStrip \/ FjLeadFence \/ FjTrailFence \/ FjSlice \/ FjLoads

\* _force_json at rest
FjIdle ==
    /\ f_raw = << >>
    /\ f_form = NoForm
    /\ f_pc = "idle"
    /\ f_s = << >>
    /\ f_result = NoValue

\* ------------------------------------------------------------------------
\* A call of validate_document_content, step by step
\* ------------------------------------------------------------------------
\* `word in text_lower` is a substring test: a text that holds the second
\* term of a pair holds the first
Contains ==
    {<<"act", "character">>, <<"act", "contract">>, <<"cook", "cooking">>,
     <<"guide", "user guide">>, <<"law", "bylaws">>,
     <<"legal", "legal representative">>, <<"message", "text message">>,
     <<"nda", "defendant">>, <<"purchase", "purchase list">>}

\* The keywords every match of a pattern holds, by position of the pattern
PatternWords ==
    <<{"agreement"}, {"party"}, {}, {}, {"hereby"}, {"terms"}, {}, {"law"}, {}, {},
      {"legal"}, {"court", "jurisdiction"}>>

PatTerms(pats) == UNION {PatternWords[k] : k \in pats}

\* Pattern 3 matches the word "whereas"
TermPats(terms) == IF "whereas" \in terms THEN {3} ELSE {}

Closure(terms) == terms \cup {q[1] : q \in {r \in Contains : r[2] \in terms}}

\* The description of a text of the given size in which the terms are
\* written as words and the patterns are matched
Described(written, pats, size) ==
    LET terms == Closure(written \cup PatTerms(pats))
    IN  [len |-> size.len, strip |-> size.strip, words |-> size.words,
         terms |-> terms, pats |-> pats \cup TermPats(terms)]

KwPrefix(a) == {legal_keywords[k] : k \in 1..a}
IndWindow(i, j) == {non_legal_indicators[k] : k \in i..j}

LongSize == [len |-> 9000, strip |-> 9000, words |-> 1300]

\* Texts with the first a keywords, the first p patterns, the first b indicators
GridPats == {0, 1, 7, 12}
GridInds == {0, 5, 6, 7, 20, 49, 60}
GridDocs ==
    {Described(KwPrefix(a) \cup IndWindow(1, b), 1..p, LongSize) :
        a \in 0..NK, p \in GridPats, b \in GridInds}

\* Texts with a run of the indicator table and none or three keywords
WindowDocs ==
    {Described(KwPrefix(a) \cup IndWindow(w[1], w[2]), {}, LongSize) :
        a \in {0, 3}, w \in {x \in (1..NN) \X (1..NN) : x[1] <= x[2]}}

\* Texts around the two length checks
SmallSizes ==
    {[len |-> 0, strip |-> 0, words |-> 0], [len |-> 60, strip |-> 0, words |-> 0],
     [len |-> 49, strip |-> 49, words |-> 8], [len |-> 50, strip |-> 50, words |-> 8],
     [len |-> 120, strip |-> 120, words |-> 19], [len |-> 120, strip |-> 120, words |-> 20],
     [len |-> 130, strip |-> 120, words |-> 20]}

SmallDocs ==
    {Described({}, {}, z) : z \in SmallSizes}
    \cup {Described({"contract"}, {}, z) : z \in {y \in SmallSizes : y.strip >= 49}}
    \cup {Described({"recipe", "bake"}, {}, z) : z \in {y \in SmallSizes : y.strip >= 49}}
    \cup {Described({"contract", "parties", "whereas"}, {1, 5, 6}, z) :
              z \in {y \in SmallSizes : y.strip >= 120}}

ValDocs == GridDocs \cup WindowDocs \cup SmallDocs \cup Docs

Tables == {"legal_keywords", "legal_patterns", "non_legal_indicators"}

NoCounts == [keywords |-> 0 - 1, patterns |-> 0 - 1, indicators |-> 0 - 1]

ValInit ==
    /\ v_doc \in ValDocs
    /\ v_pc = "length"
    /\ v_consulted = {}
    /\ v_counts = NoCounts
    /\ v_result = NoValidation

\* lines 62-63
ValLength ==
    /\ v_pc = "length"
    /\ IF ShortText(v_doc)
       THEN /\ v_result' = validate_document_content(v_doc)
            /\ v_pc' = "done"
       ELSE /\ v_result' = v_result
            /\ v_pc' = "words"
    /\ UNCHANGED <<v_doc, v_consulted, v_counts>>
    /\ UNCHANGED <<pipeVars, chunkVars, fjVars, pairVars, cleanVars>>

\* lines 65-70
ValWords ==
    /\ v_pc = "words"
    /\ IF FewWords(v_doc)
       THEN /\ v_result' = validate_document_content(v_doc)
            /\ v_pc' = "done"
       ELSE /\ v_result' = v_result
            /\ v_pc' = "count"
    /\ UNCHANGED <<v_doc, v_consulted, v_counts>>
    /\ UNCHANGED <<pipeVars, chunkVars, fjVars, pairVars, cleanVars>>

\* lines 72-86: the three tables are read
ValCount ==
    /\ v_pc = "count"
    /\ v_consulted' = Tables
    /\ v_counts' = [keywords |-> legal_word_count(v_doc),
                    patterns |-> pattern_matches(v_doc),
                    indicators |-> non_legal_count(v_doc)]
    /\ v_pc' = "decide"
    /\ UNCHANGED <<v_doc, v_result>>
    /\ UNCHANGED <<pipeVars, chunkVars, fjVars, pairVars, cleanVars>>

\* lines 88-98
ValDecide ==
    /\ v_pc = "decide"
    /\ v_result' = validate_document_content(v_doc)
    /\ v_pc' = "done"
    /\ UNCHANGED <<v_doc, v_consulted, v_counts>>
    /\ UNCHANGED <<pipeVars, chunkVars, fjVars, pairVars, cleanVars>>

ValNext == ValLength \/ ValWords \/ ValCount \/ ValDecide

\* The validator at rest
ValIdle ==
    /\ v_doc = NoUpload.doc
    /\ v_pc = "idle"
    /\ v_consulted = {}
    /\ v_counts = NoCounts
    /\ v_result = NoValidation

\* ------------------------------------------------------------------------
\* file_parser._clean_text, line by line, called on a text and then on the
\* text it returned
\* ------------------------------------------------------------------------
IsSpace(ch) == ch \in {" ", "TAB"}

\* line 9: " ".join(text.split())
RECURSIVE JoinSplit(_)
JoinSplit(s) ==
    IF s = << >> THEN << >>
    ELSE IF IsSpace(Head(s)) THEN JoinSplit(Tail(s))
    ELSE LET rest == Tail(s)
         IN  IF /\ rest # << >>
                /\ IsSpace(Head(rest))
                /\ \E k \in DOMAIN rest : ~IsSpace(rest[k])
             THEN <<Head(s), " ">> \o JoinSplit(rest)
             ELSE <<Head(s)>> \o JoinSplit(rest)

\* line 11: cleaned.replace(U+FFFD, ' ')
ReplaceFFFD(s) == [k \in DOMAIN s |-> IF s[k] = "FFFD" THEN " " ELSE s[k]]

\* line 12: cleaned.strip()
RECURSIVE PyStrip(_)
PyStrip(s) ==
    IF s # << >> /\ IsSpace(Head(s)) THEN PyStrip(Tail(s))
    ELSE IF s # << >> /\ IsSpace(s[Len(s)]) THEN PyStrip(SubSeq(s, 1, Len(s) - 1))
    ELSE s

\* The text is made of a letter, the two white-space characters blank and
\* tab, and the replacement character U+FFFD
CleanInit ==
    /\ x_text \in SeqsUpTo({"a", " ", "TAB", "FFFD"}, MaxCleanLen)
    /\ x_pc = "join"
    /\ x_pass = 1
    /\ x_s = x_text
    /\ x_first = << >>
    /\ x_second = << >>

\* line 9
CleanJoin ==
    /\ x_pc = "join"
    /\ x_s' = JoinSplit(x_s)
    /\ x_pc' = "replace"
    /\ UNCHANGED <<x_text, x_pass, x_first, x_second>>
    /\ UNCHANGED <<pipeVars, chunkVars, fjVars, valVars, pairVars>>

\* line 11
CleanReplace ==
    /\ x_pc = "replace"
    /\ x_s' = ReplaceFFFD(x_s)
    /\ x_pc' = "strip"
    /\ UNCHANGED <<x_text, x_pass, x_first, x_second>>
    /\ UNCHANGED <<pipeVars, chunkVars, fjVars, valVars, pairVars>>

\* line 12: the first call returns and its result is cleaned again, or the
\* second call returns
CleanStrip ==
    /\ x_pc = "strip"
    /\ x_s' = PyStrip(x_s)
    /\ IF x_pass = 1
       THEN /\ x_first' = PyStrip(x_s)
            /\ x_second' = x_second
            /\ x_pass' = 2
            /\ x_pc' = "join"
       ELSE /\ x_second' = PyStrip(x_s)
            /\ x_first' = x_first
            /\ x_pass' = x_pass
            /\ x_pc' = "done"
    /\ UNCHANGED x_text
    /\ UNCHANGED <<pipeVars, chunkVars, fjVars, valVars, pairVars>>

CleanNext == CleanJoin \/ CleanReplace \/ CleanStrip

\* _clean_text at rest
CleanIdle ==
    /\ x_text = << >>
    /\ x_pc = "idle"
    /\ x_pass = 0
    /\ x_s = << >>
    /\ x_first = << >>
    /\ x_second = << >>

\* ------------------------------------------------------------------------
\* Two calls of summarise_document in flight on the module's one
\* DocumentSummarizer and DocumentValidator (app.py lines 24-26)
\* ------------------------------------------------------------------------
Calls == {1, 2}

\* What __init__ leaves in the two instances
SelfInit ==
    [api_key |-> "key", model |-> "llama-3.3-70b-versatile",
     headers |-> "Bearer key", system_prompt |-> "legal summarizer",
     tables |-> Tables]

PairTransports ==
    {Transport("Timeout", 0, FALSE, << >>)}
    \cup {Transport("response", 200, TRUE, r) : r \in {PlainReply, PartialReply, ProseReply}}

\* summarizer.py lines 144-145: chunks and partials are locals of the call
InstancePartials(ps, c) == ps[1]
LocalPartials(ps, c) == ps[c]

\* _make_api_call reads self.headers and self.model, the messages carry
\* self.system_prompt (lines 59-71, 149, 165)
Sent(self, r) ==
    [request |-> r, headers |-> self.headers, model |-> self.model,
     system |-> self.system_prompt]

\* The pending request of a call gets its reply
PairAnswered(rs, tr, v) ==
    [k \in DOMAIN rs |->
        [rs[k] EXCEPT !.request = AnsweredIn([j \in DOMAIN rs |-> rs[j].request], tr, v)[k]]]

\* The texts the two calls are given: too short, single pass, two chunks,
\* three chunks
PairInit ==
    /\ q_self = SelfInit
    /\ q_text \in [Calls -> {[len |-> n, strip |-> n] : n \in {30, 8000, 12001, 25000}}]
    /\ q_pc = [c \in Calls |-> "entry"]
    /\ q_chunks = [c \in Calls |-> << >>]
    /\ q_partials = [c \in Calls |-> << >>]
    /\ q_reqs = [c \in Calls |-> << >>]
    /\ q_result = [c \in Calls |-> NoValue]

\* summarizer.py lines 136-160: call c up to its first request
PairEntry(c) ==
    /\ q_pc[c] = "entry"
    /\ IF TooShort(q_text[c])
       THEN /\ q_result' = [q_result EXCEPT ![c] =
                   [ok |-> FALSE, type |-> "ValueError", keys |-> << >>,
                    msg |-> "Text is too short to summarize"]]
            /\ q_pc' = [q_pc EXCEPT ![c] = "done"]
            /\ UNCHANGED <<q_chunks, q_reqs>>
       ELSE IF SinglePass(q_text[c])
       THEN /\ q_reqs' = [q_reqs EXCEPT ![c] =
                   Append(@, Sent(q_self, Request("single", 1, 1, 0,
                                     Min(PromptDocLimit, q_text[c].len), << >>)))]
            /\ q_pc' = [q_pc EXCEPT ![c] = "single"]
            /\ UNCHANGED <<q_chunks, q_result>>
       ELSE LET bounds == ChunkBounds(q_text[c].len, DefaultMaxChars, DefaultOverlap)
            IN  /\ q_chunks' = [q_chunks EXCEPT ![c] = bounds]
                /\ q_reqs' = [q_reqs EXCEPT ![c] =
                       Append(@, Sent(q_self, ChunkRequest(1, bounds)))]
                /\ q_pc' = [q_pc EXCEPT ![c] = "chunk"]
                /\ UNCHANGED q_result
    /\ UNCHANGED <<q_self, q_text, q_partials>>
    /\ UNCHANGED <<pipeVars, chunkVars, fjVars, valVars, cleanVars>>

\* summarizer.py lines 115-116, 141 and 175-176: the reply to the single-pass
\* request or to the aggregation request of call c, returned or raised
PairFinalReply(c) ==
    /\ q_pc[c] \in {"single", "aggregate"}
    /\ \E tr \in PairTransports :
          LET v == CallAndParse(tr)
          IN  /\ q_reqs' = [q_reqs EXCEPT ![c] = PairAnswered(@, tr, v)]
              /\ q_result' = [q_result EXCEPT ![c] = v]
              /\ q_pc' = [q_pc EXCEPT ![c] = "done"]
    /\ UNCHANGED <<q_self, q_text, q_chunks, q_partials>>
    /\ UNCHANGED <<pipeVars, chunkVars, fjVars, valVars, cleanVars>>

\* summarizer.py lines 147-175: the reply to a chunk request of call c, then
\* its next chunk request or its aggregation request
PairChunkReply(c) ==
    /\ q_pc[c] = "chunk"
    /\ \E tr \in PairTransports :
          LET v == CallAndParse(tr)
              idx == q_reqs[c][Len(q_reqs[c])].request.idx
              collected == AppendPartial(LocalPartials(q_partials, c), v)
          IN  IF Raises(v)
              THEN /\ q_reqs' = [q_reqs EXCEPT ![c] = PairAnswered(@, tr, v)]
                   /\ q_result' = [q_result EXCEPT ![c] = v]
                   /\ q_pc' = [q_pc EXCEPT ![c] = "done"]
                   /\ UNCHANGED q_partials
              ELSE /\ q_partials' = [q_partials EXCEPT ![c] = collected]
                   /\ IF MoreChunks(idx, Len(q_chunks[c]))
                      THEN /\ q_reqs' = [q_reqs EXCEPT ![c] =
                                  Append(PairAnswered(@, tr, v),
                                         Sent(q_self, ChunkRequest(idx + 1, q_chunks[c])))]
                           /\ q_pc' = q_pc
                      ELSE /\ q_reqs' = [q_reqs EXCEPT ![c] =
                                  Append(PairAnswered(@, tr, v),
                                         Sent(q_self, Request("aggregate", 0, 0, 0, 0,
                                                              collected)))]
                           /\ q_pc' = [q_pc EXCEPT ![c] = "aggregate"]
                   /\ UNCHANGED q_result
    /\ UNCHANGED <<q_self, q_text, q_chunks>>
    /\ UNCHANGED <<pipeVars, chunkVars, fjVars, valVars, cleanVars>>

\* Either call takes its next step
PairNext ==
    \E c \in Calls : PairEntry(c) \/ PairFinalReply(c) \/ PairChunkReply(c)

\* No call of summarise_document in flight
PairIdle ==
    /\ q_self = SelfInit
    /\ q_text = [c \in Calls |-> [len |-> 0, strip |-> 0]]
    /\ q_pc = [c \in Calls |-> "idle"]
    /\ q_chunks = [c \in Calls |-> << >>]
    /\ q_partials = [c \in Calls |-> << >>]
    /\ q_reqs = [c \in Calls |-> << >>]
    /\ q_result = [c \in Calls |-> NoValue]

\* A call of _chunk_text on its own
ChunkSpecInit == ChunkInit /\ PipeInit /\ FjIdle /\ ValIdle /\ PairIdle /\ CleanIdle

ChunkSpec == ChunkSpecInit /\ [][ChunkNext]_vars

\* The same call, which as sequential code keeps running until it returns
ChunkLiveSpec == ChunkSpecInit /\ [][ChunkNext]_vars /\ WF_vars(ChunkNext)

\* A call of _force_json on its own
ForceJsonInit == FjInit /\ PipeInit /\ ChunkIdle /\ ValIdle /\ PairIdle /\ CleanIdle

ForceJsonSpec == ForceJsonInit /\ [][FjNext]_vars

\* Two calls of summarise_document on the shared instances
PairSpecInit ==
    PairInit /\ PipeInit /\ ChunkIdle /\ FjIdle /\ ValIdle /\ CleanIdle

PairSpec == PairSpecInit /\ [][PairNext]_vars

\* _clean_text called twice in a row, on its own
CleanSpecInit ==
    CleanInit /\ PipeInit /\ ChunkIdle /\ FjIdle /\ ValIdle /\ PairIdle

CleanSpec == CleanSpecInit /\ [][CleanNext]_vars

\* A call of validate_document_content on its own
ValidatorInit == ValInit /\ PipeInit /\ ChunkIdle /\ FjIdle /\ PairIdle /\ CleanIdle

ValidatorSpec == ValidatorInit /\ [][ValNext]_vars

Init == PipeInit /\ ChunkIdle /\ FjIdle /\ ValIdle /\ PairIdle /\ CleanIdle

Next == PipeNext

\* The service handling one upload
Spec == Init /\ [][Next]_vars

\* ------------------------------------------------------------------------
\* Properties of the handlers and of summarise_document
\* ------------------------------------------------------------------------
IsPrefix(a, b) == Len(a) <= Len(b) /\ a = SubSeq(b, 1, Len(a))

Count(seq, S) == Cardinality({k \in DOMAIN seq : seq[k] \in S})

\* The keys a reply's JSON object has, read off the reply's tokens
MembersOf(content) == DictKeys(SelectSeq(content, LAMBDA x : x \in Members), {})

\* v is what parsing the reply content gives
ParsedFrom(v, content) ==
    \/ v.type = "object" /\ v.keys = MembersOf(content)
    \/ v.type = "number" /\ content = NumberReply

RequestFailed(r) == r.outcome \in {"transport_error", "parse_error"}

\* C1: no LLM request is issued and no partial summary exists unless
\* validate_document_content returned is_legal = true for the uploaded
\* document, whichever handler summarizes it.
C1_NoRequestUnlessLegal ==
    (reqs # << >> \/ partials # << >>) =>
        (validation # NoValidation /\ validation.is_legal)

\* C2: whenever the aggregation request is issued, the partial summaries
\* collected are as many as the chunks _chunk_text returned, every chunk's
\* request has been made and answered, and none is outstanding.
C2_AggregationAfterAllChunks ==
    \A j \in DOMAIN reqs :
        reqs[j].kind = "aggregate" =>
            /\ Len(chunks) >= 1
            /\ Len(partials) = Len(chunks)
            /\ Len(reqs[j].payload) = Len(chunks)
            /\ \A k \in 1..Len(chunks) :
                  \E i \in 1..(j - 1) :
                      /\ reqs[i].kind = "chunk"
                      /\ reqs[i].idx = k
                      /\ reqs[i].outcome = "parsed"
            /\ \A i \in 1..(j - 1) : reqs[i].outcome # "pending"

C2_Witness ==
    /\ Len(chunks) = 3
    /\ pc = "aggregate"
    /\ reqs[Len(reqs)].kind = "aggregate"
    /\ reqs[Len(reqs)].outcome = "pending"

\* The stages /summarize runs on a document that passes all of them
ExpectedStages ==
    IF upload.doc.len <= 12000
    THEN <<"length", "validate", "summarize">>
    ELSE <<"length", "validate", "chunk">>
         \o [k \in 1..Len(chunks) |-> "summarize"]
         \o <<"aggregate">>

\* C3: /summarize runs length check, content validation, chunking,
\* per-chunk summarization and aggregation in this order, and the first
\* failing stage (too-short text, validator rejection, a failed or
\* unparseable LLM reply) is the last stage run and the last request made,
\* and the caller gets an error instead of a summary.
C3_OrderedFailFast ==
    upload.endpoint = "summarize" =>
        /\ IsPrefix(stages, ExpectedStages)
        /\ Len(reqs) = Count(stages, {"summarize", "aggregate"})
        /\ ("length" \in {stages[k] : k \in DOMAIN stages} /\ upload.doc.strip < 50) =>
              /\ stages = <<"length">>
              /\ response.body = "error"
        /\ (validation # NoValidation /\ ~validation.is_legal) =>
              /\ stages = <<"length", "validate">>
              /\ chunks = << >>
              /\ response.body = "error"
              /\ response.status = 422
        /\ \A j \in DOMAIN reqs :
              RequestFailed(reqs[j]) =>
                  /\ j = Len(reqs)
                  /\ response.body = "error"
                  /\ result = NoValue
        /\ response.body = "summary" =>
              /\ stages = ExpectedStages
              /\ \A j \in DOMAIN reqs : reqs[j].outcome = "parsed"

C3_Witness ==
    /\ upload.endpoint = "summarize"
    /\ Len(chunks) = 3
    /\ Len(reqs) = 2
    /\ reqs[2].outcome = "parse_error"
    /\ response.status = 400

\* C4: a document of at most 12000 characters handed to summarise_document
\* gets exactly one LLM request, the single-pass one, with no chunking and
\* no aggregation, and the value returned is the parsed reply to it.
C4_SinglePassOnce ==
    (upload.doc.len <= 12000) =>
        /\ (reqs # << >> \/ pc = "single") =>
              /\ Len(reqs) = 1
              /\ reqs[1].kind = "single"
        /\ (validation.is_legal /\ pc = "done" /\ upload.endpoint # "validate") =>
              Len(reqs) = 1
        /\ chunks = << >>
        /\ partials = << >>
        /\ Count(stages, {"chunk", "aggregate"}) = 0
        /\ result # NoValue =>
              /\ reqs[1].outcome = "parsed"
              /\ ParsedFrom(result, reqs[1].reply.content)

C4_Witness ==
    /\ upload.doc.len = 12000
    /\ validation.is_legal
    /\ pc = "done"
    /\ reqs # << >>
    /\ reqs[1].reply.content = FencedReply
    /\ result.keys = <<"full_summary">>
    /\ response.body = "summary"

\* C5: a document longer than 12000 characters that splits into N chunks
\* gets the chunk requests 1..N one after another in chunk order, each
\* carrying its chunk, and, once all N succeeded, exactly one aggregation
\* request whose payload lists the N partials in chunk order, partial k
\* being the parsed reply to chunk k; 15000 characters give N = 2.
C5_ChunksThenAggregate ==
    (upload.doc.len > 12000 /\ reqs # << >>) =>
        LET N == Len(chunks)
        IN  /\ N >= 2
            /\ upload.doc.len = 15000 => chunks = << <<0, 12000>>, <<11500, 15000>> >>
            /\ Len(reqs) <= N + 1
            /\ \A j \in DOMAIN reqs :
                  /\ j < Len(reqs) => reqs[j].outcome = "parsed"
                  /\ j <= N =>
                        /\ reqs[j].kind = "chunk"
                        /\ reqs[j].idx = j
                        /\ reqs[j].total = N
                        /\ <<reqs[j].from, reqs[j].to>> = chunks[j]
                  /\ j = N + 1 =>
                        /\ reqs[j].kind = "aggregate"
                        /\ Len(reqs[j].payload) = N
                        /\ \A k \in 1..N :
                              ParsedFrom(reqs[j].payload[k], reqs[k].reply.content)
            /\ (Len(reqs) >= N /\ reqs[N].outcome = "parsed") => Len(reqs) = N + 1

C5_Witness ==
    /\ upload.doc.len = 15000
    /\ validation.is_legal
    /\ Len(reqs) = 3
    /\ reqs[3].kind = "aggregate"
    /\ reqs[1].reply.content = PlainReply
    /\ reqs[2].reply.content = PartialReply
    /\ response.body = "summary"

\* C6: every summary returned to a caller carries validation metadata with
\* is_legal_document = true and the confidence score and reason the
\* validator produced for the uploaded document.
C6_SummaryCarriesValidation ==
    response.body \in {"summary", "docx"} =>
        /\ validation # NoValidation
        /\ response.validation.is_legal
        /\ response.validation.confidence = validate_document_content(upload.doc).confidence
        /\ response.validation.reason = validate_document_content(upload.doc).reason

\* ------------------------------------------------------------------------
\* Properties of _chunk_text
\* ------------------------------------------------------------------------
\* The call returned, and its parameters satisfy max_chars > overlap >= 0
ChunkReturned == c_pc = "done" /\ 0 <= c_overlap /\ c_overlap < c_max

\* Python's chunk[overlap:]
DropOverlap(chunk, overlap) == PySlice(chunk, overlap, Len(chunk))

RECURSIVE Rebuild(_, _, _)
Rebuild(cs, overlap, k) ==
    IF k > Len(cs) THEN << >>
    ELSE (IF k = 1 THEN cs[1] ELSE DropOverlap(cs[k], overlap))
         \o Rebuild(cs, overlap, k + 1)

CeilDiv(a, b) == (a + b - 1) \div b

\* C7: for max_chars > overlap >= 0, every character position of the text
\* lies inside the index range of at least one returned chunk, and that
\* chunk holds the text's character at that position.
C7_ChunksCoverText ==
    ChunkReturned =>
        \A p \in 0..(Len(c_text) - 1) :
            \E k \in DOMAIN c_chunks :
                /\ c_bounds[k][1] <= p
                /\ p < c_bounds[k][2]
                /\ p - c_bounds[k][1] + 1 \in DOMAIN c_chunks[k]
                /\ c_chunks[k][p - c_bounds[k][1] + 1] = c_text[p + 1]

C7_Witness ==
    /\ ChunkReturned
    /\ Len(c_text) > c_max
    /\ c_overlap > 0
    /\ Len(c_chunks) >= 3

\* C8: for max_chars > overlap >= 0, the first chunk followed by every
\* later chunk without its first `overlap` characters is the original text.
C8_ChunkRoundTrip ==
    ChunkReturned => Rebuild(c_chunks, c_overlap, 1) = c_text

C8_Witness ==
    /\ ChunkReturned
    /\ c_overlap = 2
    /\ Len(c_chunks) >= 3
    /\ \E p, q \in DOMAIN c_text : c_text[p] # c_text[q]

\* C9: for a text longer than max_chars (and max_chars > overlap >= 0),
\* the last `overlap` characters of every chunk are the first `overlap`
\* characters of the next one, and the two index ranges share exactly
\* `overlap` positions, also when the next chunk is the shorter final one.
C9_ConsecutiveOverlap ==
    (ChunkReturned /\ Len(c_text) > c_max) =>
        \A k \in 1..(Len(c_chunks) - 1) :
            LET a == c_chunks[k]
                b == c_chunks[k + 1]
            IN  /\ Len(a) >= c_overlap
                /\ Len(b) >= c_overlap
                /\ SubSeq(a, Len(a) - c_overlap + 1, Len(a)) = SubSeq(b, 1, c_overlap)
                /\ c_bounds[k][1] < c_bounds[k + 1][1]
                /\ c_bounds[k][2] < c_bounds[k + 1][2]
                /\ c_bounds[k][2] - c_bounds[k + 1][1] = c_overlap

C9_Witness ==
    /\ ChunkReturned
    /\ Len(c_text) > c_max
    /\ c_overlap > 0
    /\ Len(c_chunks) >= 2
    /\ Len(c_chunks[Len(c_chunks)]) < c_max

C11_ShortTextOneChunk ==
    (c_pc = "done" /\ Len(c_text) <= c_max) =>
        /\ c_chunks = <<c_text>>
        /\ c_bounds = << <<0, Len(c_text)>> >>

C11_Witness ==
    /\ c_pc = "done"
    /\ c_text # << >>
    /\ Len(c_text) = c_max
    /\ c_chunks = <<c_text>>

\* C12: a call of the chunker with overlap >= max_chars is reported as a
\* configuration error: it returns no chunk and never enters the slicing loop.
C12_BadOverlapIsAnError ==
    c_overlap >= c_max => (c_pc # "loop" /\ c_chunks = << >>)

\* ------------------------------------------------------------------------
\* Properties of _force_json
\* ------------------------------------------------------------------------
Range(seq) == {seq[k] : k \in DOMAIN seq}

\* The reply has no "{" ... "}" pair
NoBracePair(s) ==
    \/ FindFirst(s, "{") = 0
    \/ FindLast(s, "}") = 0
    \/ FindLast(s, "}") < FindFirst(s, "{")

FjFailed == f_result.type = "ValueError"

\* C13: _force_json fails for every reply without a "{" ... "}" pair and for
\* every reply whose bracketed substring is not valid JSON, and it never
\* returns a value that is not a JSON object.
C13_OnlyObjectsReturned ==
    f_pc = "done" =>
        /\ NoBracePair(f_raw) => FjFailed
        /\ ~JsonLoads(Bracketed(f_raw)).ok => FjFailed
        /\ f_result.ok => f_result.type = "object"

\* C14: for a reply prefix + opening fence (with or without the json tag) +
\* J + closing fence + suffix, with J a valid JSON object and brace-free
\* prose around the fences, _force_json returns what parsing J alone returns.
C14_FencedRoundTrip ==
    (f_pc = "done" /\ f_form.wrapped) =>
        /\ f_result.ok
        /\ f_result.type = "object"
        /\ f_result = JsonLoads(f_form.json)

C14_Witness ==
    /\ f_pc = "done"
    /\ f_form.wrapped
    /\ f_form.prefix # << >>
    /\ f_form.suffix # << >>
    /\ f_form.tag = << >>
    /\ f_form.outer # << >>
    /\ f_result.ok
    /\ Len(f_result.keys) = 2

\* C15 as stated: every object _force_json returns has an actions member.
C15_ActionsAlwaysPresent ==
    (f_pc = "done" /\ f_result.ok /\ f_result.type = "object") =>
        "actions" \in Range(f_result.keys)

\* C15, amended: the object _force_json returns has the keys of the reply's
\* JSON and no other: it has an actions member only if the reply has one.
C15_NoActionsInjected ==
    (f_pc = "done" /\ f_result.ok) => Range(f_result.keys) \subseteq Range(f_raw)

C15_Witness ==
    /\ f_pc = "done"
    /\ f_result.ok
    /\ f_result.type = "object"
    /\ f_result.keys # << >>
    /\ "actions" \notin Range(f_result.keys)

\* ------------------------------------------------------------------------
\* Properties of validate_document_content
\* ------------------------------------------------------------------------
TooShortReasons ==
    {"Document is too short to analyze", "Document is too short to be a legal document"}

ValScored == v_pc = "done" /\ v_counts # NoCounts

\* C16: a text whose trimmed length is below 50 or that has fewer than 20
\* words is rejected with confidence 0.0 and a too-short reason, before any
\* of the three tables is read.
C16_TooShortBeforeTables ==
    (v_pc = "done" /\ (v_doc.strip < 50 \/ v_doc.words < 20)) =>
        /\ ~v_result.is_legal
        /\ v_result.confidence = 0
        /\ v_result.reason \in TooShortReasons
        /\ v_consulted = {}
        /\ v_counts = NoCounts

C16_Witness ==
    /\ v_pc = "done"
    /\ v_doc.strip >= 50
    /\ v_doc.words = 19
    /\ legal_word_count(v_doc) > 0
    /\ v_result.reason = "Document is too short to be a legal document"

\* C17: the confidence score returned lies in [0, 1] for every text.
C17_ConfidenceInUnitInterval ==
    v_pc = "done" => (0 <= v_result.confidence /\ v_result.confidence <= ScoreUnit)

C17_Witness ==
    /\ ValScored
    /\ v_result.confidence = 0
    /\ v_counts.keywords > 0
    /\ 30 * v_counts.indicators * NK * NP > 60 * v_counts.keywords * NP * NN
            + 40 * v_counts.patterns * NK * NN

\* max(0, 0.6 * kw / 81 + 0.4 * p / 12 - 0.3 * nl / 60) in units of 1 / ScoreUnit
ExactScore(c) ==
    Max(0, 60 * c.keywords * NP * NN + 40 * c.patterns * NK * NN
               - 30 * c.indicators * NK * NP)

\* C18: a text that passes the length checks is accepted exactly when
\* max(0, 0.6*legalWordRatio + 0.4*patternRatio - 0.3*nonLegalRatio) >= 0.15,
\* and a rejection with nonLegalRatio <= 0.1 carries the generic reason.
C18_AcceptIffScoreAtLeastThreshold ==
    ValScored =>
        /\ v_result.is_legal <=> (100 * ExactScore(v_counts) >= 15 * ScoreUnit)
        /\ (~v_result.is_legal /\ 10 * v_counts.indicators <= NN) =>
               v_result.reason = GenericReason

\* The five genres in the order they are tried
Genres ==
    << [terms |-> {"recipe", "cooking", "ingredients", "bake"}, word |-> "recipe"],
       [terms |-> {"story", "novel", "chapter", "fiction"}, word |-> "story"],
       [terms |-> {"code", "function", "import", "programming"}, word |-> "code"],
       [terms |-> {"email", "message", "chat", "conversation"}, word |-> "message"],
       [terms |-> {"homework", "assignment", "school", "student"}, word |-> "education"] >>

GenreReasons ==
    << "This appears to be a recipe or cooking document, not a legal document",
       "This appears to be a story or fictional content, not a legal document",
       "This appears to be source code or technical documentation, not a legal document",
       "This appears to be a personal message or email, not a legal document",
       "This appears to be educational content, not a legal document" >>

GenresPresent(t) == {g \in DOMAIN Genres : Genres[g].terms \cap t.terms # {}}

RejectedAsNonLegal ==
    /\ ValScored
    /\ ~v_result.is_legal
    /\ 10 * v_counts.indicators > NN

\* C19: a rejection with nonLegalRatio > 0.1 carries the reason of the first
\* of recipe, fiction, code, personal message, education whose indicators the
\* text holds, whatever else it holds, and the generic reason only when it
\* holds none of the five.
C19_GenrePriority ==
    RejectedAsNonLegal =>
        LET present == GenresPresent(v_doc)
        IN  IF present = {}
            THEN v_result.reason = GenericReason
            ELSE \E g \in present :
                    /\ \A h \in present : g <= h
                    /\ v_result.reason = GenreReasons[g]

C19_Witness ==
    /\ RejectedAsNonLegal
    /\ GenresPresent(v_doc) = {2, 3, 4, 5}
    /\ v_counts.keywords > 0
    /\ v_result.reason = GenreReasons[2]

\* C20: each distinct keyword and each distinct indicator found in the text
\* adds 1 to its count, however many entries of the table spell it.
C20_EachTermCountsOnce ==
    ValScored =>
        /\ v_counts.keywords = Cardinality(v_doc.terms \cap Range(legal_keywords))
        /\ v_counts.indicators = Cardinality(v_doc.terms \cap Range(non_legal_indicators))

\* ------------------------------------------------------------------------
\* Properties of the failure handling of summarise_document
\* ------------------------------------------------------------------------
LastRequestEndedInError(k) ==
    /\ k = Len(reqs)
    /\ pc = "done"
    /\ response.body = "error"

\* C21: a request answered with HTTP 401 or HTTP 400 is never retried: it is
\* the last LLM request of the invocation, which ends with an error.
C21_NoRetryAfterAuthOrBadRequest ==
    \A k \in DOMAIN reqs :
        (reqs[k].reply.kind = "response" /\ reqs[k].reply.status \in {401, 400}) =>
            LastRequestEndedInError(k)

C21_Witness ==
    /\ pc = "done"
    /\ Len(chunks) = 3
    /\ Len(reqs) = 2
    /\ reqs[1].outcome = "parsed"
    /\ reqs[2].reply.status = 401
    /\ response.body = "error"

\* Two requests with the same prompt
SameRequest(a, b) ==
    /\ a.kind = b.kind
    /\ a.idx = b.idx
    /\ a.from = b.from
    /\ a.to = b.to
    /\ a.payload = b.payload

C23_TimeoutNotFatal ==
    \A k \in DOMAIN reqs :
        /\ reqs[k].timeout = 60
        /\ (reqs[k].reply.kind = "Timeout" /\ reqs[k].kind \in {"chunk", "aggregate"}) =>
              ~LastRequestEndedInError(k)

\* C23, amended: every request has the fixed timeout of 60 seconds, and a
\* timeout is fatal: the request that timed out is the last one of the
\* invocation and the caller gets HTTP 400 "Failed to connect to Groq API".
C23_TimeoutIsFatal ==
    \A k \in DOMAIN reqs :
        /\ reqs[k].timeout = 60
        /\ reqs[k].reply.kind = "Timeout" =>
              /\ LastRequestEndedInError(k)
              /\ response.status = 400
              /\ response.detail = "Failed to connect to Groq API: Timeout"

C23_Witness ==
    /\ pc = "done"
    /\ Len(chunks) = 2
    /\ Len(reqs) = 2
    /\ reqs[2].kind = "chunk"
    /\ reqs[2].reply.kind = "Timeout"
    /\ response.status = 400

\* The kind of failure of a transport
FailureKind(tr) == <<tr.kind, tr.status, tr.choices>>

DocRequests == SelectSeq(reqs, LAMBDA r : r.kind \in {"single", "chunk"})

\* All requests that carry text of the document were issued
AllDocRequestsIssued ==
    /\ reqs # << >>
    /\ \/ reqs[1].kind = "single"
       \/ \E k \in DOMAIN reqs : reqs[k].kind = "aggregate"

\* C26: every character of the document is embedded in the user prompt of
\* at least one request, on the single-pass path and on the chunked path.
C26_WholeDocumentSent ==
    AllDocRequestsIssued =>
        LET rs == DocRequests
        IN  /\ rs[1].from = 0
            /\ \A k \in 2..Len(rs) : rs[k].from <= rs[k - 1].to
            /\ rs[Len(rs)].to = upload.doc.len

\* C28: the single-pass path is taken exactly when _chunk_text with its
\* default parameters would return one chunk, and an aggregation request
\* combines at least two partial summaries.
C28_SinglePassIffOneChunk ==
    reqs # << >> =>
        /\ (reqs[1].kind = "single") <=>
               (Len(ChunkBounds(upload.doc.len, DefaultMaxChars, DefaultOverlap)) = 1)
        /\ (reqs[1].kind = "chunk") <=>
               (Len(ChunkBounds(upload.doc.len, DefaultMaxChars, DefaultOverlap)) > 1)
        /\ \A k \in DOMAIN reqs :
              reqs[k].kind = "aggregate" => Len(reqs[k].payload) >= 2

C28_Witness ==
    /\ upload.doc.len = 12001
    /\ Len(reqs) = 3
    /\ reqs[3].kind = "aggregate"
    /\ Len(reqs[3].payload) = 2

\* C29: /validate-document answers an empty upload, and a document whose
\* text has fewer than 50 characters, with the HTTP 400 it raises for them.
C29_ValidateDocumentKeeps400 ==
    (/\ upload.endpoint = "validate"
     /\ pc = "done"
     /\ (~upload.data \/ (upload.extract_ok /\ upload.doc.strip < 50))) =>
        response.status = 400

\* ------------------------------------------------------------------------
\* Termination of _chunk_text
\* ------------------------------------------------------------------------
ValidOverlap == 0 <= c_overlap /\ c_overlap < c_max

\* One iteration of the loop under valid parameters: the start index grows
\* if the loop goes on, and the loop ends exactly when the slice just taken
\* reaches the end of the text
LoopIterationAdvances ==
    (ValidOverlap /\ c_pc = "loop" /\ c_chunks' # c_chunks) =>
        LET slice == c_bounds'[Len(c_bounds')]
        IN  /\ slice[1] = c_i
            /\ (c_pc' = "done") <=> (slice[2] = Len(c_text))
            /\ (c_pc' = "loop") => (c_i' > c_i /\ c_i' < Len(c_text))

\* C27: for every text and every 0 <= overlap < max_chars the loop of
\* _chunk_text terminates: the start index strictly increases on every
\* iteration and the loop stops at the first slice that reaches the end.
C27_LoopTerminates ==
    /\ [][LoopIterationAdvances]_vars
    /\ ValidOverlap => <>(c_pc = "done")

C27_Witness ==
    /\ c_pc = "done"
    /\ ValidOverlap
    /\ c_overlap > 0
    /\ Len(c_chunks) = 3
    /\ c_bounds[3][2] = Len(c_text)

\* A text with no white space at either end and no two white-space
\* characters in a row
Normalized(s) ==
    /\ s # << >> => ~IsSpace(s[1]) /\ ~IsSpace(s[Len(s)])
    /\ \A k \in 1..(Len(s) - 1) : ~(IsSpace(s[k]) /\ IsSpace(s[k + 1]))

\* C30: the text _clean_text returns has no leading or trailing white space
\* and no two white-space characters in a row, and cleaning it again leaves
\* it as it is, for every input, U+FFFD included.
C30_CleanTextNormalized ==
    x_pc = "done" => Normalized(x_first) /\ x_second = x_first

\* The partials a call has collected, read off the replies to its own chunk
\* requests
RECURSIVE PartialsOf(_)
PartialsOf(rs) ==
    IF rs = << >> THEN << >>
    ELSE LET r == rs[Len(rs)].request
             before == PartialsOf(SubSeq(rs, 1, Len(rs) - 1))
         IN  IF r.kind = "chunk" /\ r.outcome = "parsed"
             THEN Append(before, CallAndParse(r.reply))
             ELSE before

\* Request k of a call as its own text and its own earlier replies give it
OwnRequest(t, rs, k) ==
    LET r == rs[k].request
        bounds == ChunkBounds(t.len, DefaultMaxChars, DefaultOverlap)
    IN  /\ r.kind = "single" =>
               SinglePass(t) /\ k = 1 /\ r.from = 0 /\ r.to = Min(PromptDocLimit, t.len)
        /\ r.kind = "chunk" =>
               /\ ~SinglePass(t)
               /\ r.idx = k
               /\ r.total = Len(bounds)
               /\ <<r.from, r.to>> = bounds[k]
        /\ r.kind = "aggregate" =>
               /\ k = Len(bounds) + 1
               /\ r.payload = PartialsOf(SubSeq(rs, 1, k - 1))

\* Call c's chunks, partials, requests and result as its own text and the
\* replies to its own requests give them
OwnState(c) ==
    LET t == q_text[c]
        rs == q_reqs[c]
    IN  /\ q_chunks[c] =
               IF q_pc[c] = "entry" \/ TooShort(t) \/ SinglePass(t) THEN << >>
               ELSE ChunkBounds(t.len, DefaultMaxChars, DefaultOverlap)
        /\ q_partials[c] = PartialsOf(rs)
        /\ \A k \in DOMAIN rs : OwnRequest(t, rs, k)
        /\ q_pc[c] = "done" /\ rs # << >> =>
               q_result[c] = CallAndParse(rs[Len(rs)].request.reply)
        /\ q_pc[c] = "done" /\ rs = << >> => TooShort(t)
        /\ q_pc[c] # "done" => q_result[c] = NoValue

\* C24: for any interleaving of two summarise_document calls on the shared
\* instances, each call's chunks, partial summaries, requests and result
\* depend only on its own text and the replies to its own requests, and the
\* shared instances' fields are never written after construction.
C24_CallsShareNoMutableState ==
    /\ \A c \in Calls : OwnState(c)
    /\ q_self = SelfInit

\* Both calls are between chunk requests at once, on different texts, each
\* holding a partial of its own that differs from the other's
C24_Witness ==
    /\ q_pc[1] = "chunk" /\ q_pc[2] = "chunk"
    /\ q_text[1] # q_text[2]
    /\ Len(q_partials[1]) = 1 /\ Len(q_partials[2]) = 1
    /\ q_partials[1] # q_partials[2]

============================================================================
